---- MODULE Spec2Model ----
(***************************************************************************)
(* BiteCalc: the FoodAnalyzer component (src/components/food-analyzer.tsx).*)
(* The component's React state, the localStorage entry 'userProfile' and   *)
(* the requests outstanding at the external AI service are the state; the  *)
(* event handlers, effects and promise continuations are the actions.      *)
(*                                                                         *)
(* JavaScript values are modelled as follows.                              *)
(*  - an object (UserProfile, AnalysisResult) is a function from the keys  *)
(*    it owns to their values, so {...a, ...b} is Merge(a, b) and a key    *)
(*    that is not set is a key outside DOMAIN;                             *)
(*  - text that the code splits, trims, parses or searches is a sequence   *)
(*    of one-character strings; text it only compares or shows is a string;*)
(*  - a real number is an integer count of thousandths where the code      *)
(*    parses it with parseFloat (confidence, nutrition), and calories,     *)
(*    weight, height and age are whole numbers;                            *)
(*  - NaN and null are the two numbers NaN and Null below, which no other  *)
(*    value of the model uses.                                             *)
(*                                                                         *)
(* A handler is one action, with the render and the effects that follow    *)
(* its setState calls; a handler that awaits the AI service is one action  *)
(* up to the call and one for each way the call settles. A continuation    *)
(* reads the state that the render of its click held, which the request    *)
(* in `pending` carries.                                                   *)
(*                                                                         *)
(* Spec is the component. SuggestSpec is getPersonalizedSuggestions alone, *)
(* on results and profiles drawn from sets wider than Spec reaches; the    *)
(* variable `suggestions` holds its output there and stays null in Spec,   *)
(* where the list is a function of result and userProfile.                 *)
(***************************************************************************)
EXTENDS Integers, Sequences, FiniteSets, TLC

\* ------------------------------------------------------------------ bounds
\* What the user does in one behaviour: profile edits, clearing the profile,
\* uploads, clicks on Analyze Food and on Update Analysis, and page reloads.
MaxEvents == 5

\* ------------------------------------------------------- JavaScript values
NaN == -1
Null == -2

\* Boolean(x) for a number: NaN, null and 0 are falsy.
TruthyNum(x) == x \notin {NaN, Null, 0}

\* obj.key is truthy, for a number-valued key and for a string-valued key.
HasNum(obj, key) == key \in DOMAIN obj /\ TruthyNum(obj[key])
HasStr(obj, key) == key \in DOMAIN obj /\ obj[key] # ""

\* {...a, ...b}
Merge(a, b) ==
  [k \in DOMAIN a \cup DOMAIN b |-> IF k \in DOMAIN b THEN b[k] ELSE a[k]]

\* {}
EmptyObject == << >>

\* x || dflt for a number x
OrElse(x, dflt) == IF TruthyNum(x) THEN x ELSE dflt

\* array.slice(-n)
SliceLast(s, n) ==
  IF Len(s) <= n THEN s ELSE SubSeq(s, Len(s) - n + 1, Len(s))

\* ------------------------------------------------------- nullable values
\* null, and a value that is not null
None == << >>
Some(v) == << v >>

\* --------------------------------------------------------------- text
DigitChars == <<"0", "1", "2", "3", "4", "5", "6", "7", "8", "9">>
IsDigit(c) == \E i \in 1..10 : DigitChars[i] = c
DigitVal(c) == (CHOOSE i \in 1..10 : DigitChars[i] = c) - 1
IsSpace(c) == c \in {" ", "\n", "\t"}

UpperChars ==
  <<"A", "B", "C", "D", "E", "F", "G", "H", "I", "J", "K", "L", "M",
    "N", "O", "P", "Q", "R", "S", "T", "U", "V", "W", "X", "Y", "Z">>
LowerChars ==
  <<"a", "b", "c", "d", "e", "f", "g", "h", "i", "j", "k", "l", "m",
    "n", "o", "p", "q", "r", "s", "t", "u", "v", "w", "x", "y", "z">>

LowerChar(c) ==
  IF \E i \in 1..26 : UpperChars[i] = c
    THEN LowerChars[CHOOSE i \in 1..26 : UpperChars[i] = c]
    ELSE c

\* text.toLowerCase()
ToLowerCase(text) == [i \in 1..Len(text) |-> LowerChar(text[i])]

\* sep occurs in text at position i
OccursAt(text, sep, i) ==
  /\ i + Len(sep) - 1 <= Len(text)
  /\ SubSeq(text, i, i + Len(sep) - 1) = sep

\* text.includes(part)
Includes(text, part) == \E i \in 1..(Len(text) + 1) : OccursAt(text, part, i)

\* text.split(sep), for a separator that is not empty
RECURSIVE SplitFrom(_, _, _, _)
SplitFrom(text, sep, i, cur) ==
  IF i > Len(text) THEN << cur >>
  ELSE IF OccursAt(text, sep, i)
    THEN << cur >> \o SplitFrom(text, sep, i + Len(sep), << >>)
    ELSE SplitFrom(text, sep, i + 1, Append(cur, text[i]))

Split(text, sep) == SplitFrom(text, sep, 1, << >>)

\* text.trim()
RECURSIVE TrimStart(_)
TrimStart(text) ==
  IF text # << >> /\ IsSpace(Head(text)) THEN TrimStart(Tail(text)) ELSE text

RECURSIVE TrimEnd(_)
TrimEnd(text) ==
  IF text # << >> /\ IsSpace(text[Len(text)])
    THEN TrimEnd(SubSeq(text, 1, Len(text) - 1))
    ELSE text

Trim(text) == TrimEnd(TrimStart(text))

\* the longest prefix of text made of digits
RECURSIVE DigitPrefix(_)
DigitPrefix(text) ==
  IF text # << >> /\ IsDigit(Head(text))
    THEN << Head(text) >> \o DigitPrefix(Tail(text))
    ELSE << >>

RECURSIVE DigitsValue(_)
DigitsValue(digits) ==
  IF digits = << >> THEN 0
  ELSE 10 * DigitsValue(SubSeq(digits, 1, Len(digits) - 1))
       + DigitVal(digits[Len(digits)])

\* parseInt(text), for text without a sign: the leading digits after any
\* leading white space, NaN when there are none.
ParseInt(text) ==
  LET digits == DigitPrefix(TrimStart(text)) IN
  IF digits = << >> THEN NaN ELSE DigitsValue(digits)

\* the first three digits of a fraction, as thousandths
Thousandths(frac) ==
  LET d(i) == IF i <= Len(frac) THEN DigitVal(frac[i]) ELSE 0 IN
  100 * d(1) + 10 * d(2) + d(3)

\* parseFloat(text), in thousandths, for text without sign or exponent:
\* digits, then optionally a point and digits; NaN when no digit is read.
ParseFloat(text) ==
  LET t == TrimStart(text)
      whole == DigitPrefix(t)
      rest == SubSeq(t, Len(whole) + 1, Len(t))
      frac == IF rest # << >> /\ Head(rest) = "."
                THEN DigitPrefix(Tail(rest)) ELSE << >>
  IN IF whole = << >> /\ frac = << >> THEN NaN
     ELSE 1000 * DigitsValue(whole) + Thousandths(frac)

\* ------------------------------------------------------------ JSON
\* JSON.stringify of a number: NaN is written as null.
JsonNumber(x) == IF x = NaN THEN Null ELSE x

JsonMeal(m) ==
  [date |-> m.date, foodName |-> m.foodName, calories |-> JsonNumber(m.calories)]

NumberKeys == {"weight", "height", "age", "dailyCalorieGoal"}

\* JSON.parse(JSON.stringify(profile)): the document that the stored text
\* denotes. Strings, arrays and whole numbers are written as they are.
JsonStringify(profile) ==
  [k \in DOMAIN profile |->
     IF k \in NumberKeys THEN JsonNumber(profile[k])
     ELSE IF k = "mealHistory"
       THEN [i \in 1..Len(profile[k]) |-> JsonMeal(profile[k][i])]
       ELSE profile[k]]

\* The localStorage entry 'userProfile': absent, or a stored JSON text.
NoItem == [kind |-> "absent", value |-> EmptyObject]
Item(doc) == [kind |-> "object", value |-> doc]

\* A stored text that JSON.parse rejects, and the stored text null.
InvalidItem == [kind |-> "invalid", value |-> EmptyObject]
NullItem == [kind |-> "null", value |-> EmptyObject]

\* ------------------------------------------------- Calorie Goal Calculator
\* The factors 1.2, 1.375, 1.55, 1.725 and 1.9, in fortieths.
activityMultipliers ==
  [sedentary |-> 48, light |-> 55, moderate |-> 62,
   active |-> 69, very_active |-> 76]

\* bmr in thousandths of a kcal
Bmr(weight, height, age, gender) ==
  IF gender = "male"
    THEN 88362 + 13397 * weight + 4799 * height - 5677 * age
    ELSE 447593 + 9247 * weight + 3098 * height - 4330 * age

\* Math.floor in place of Math.round
MathFloor(x) == x \div 40000

\* Math.round(x / 40000) = floor(x / 40000 + 1/2), for x in thousandths
\* times fortieths
MathRound(x) == (x + 20000) \div 40000

calculateDailyCalories(weight, height, age, gender, activityLevel) ==
  MathRound(Bmr(weight, height, age, gender)
            * activityMultipliers[activityLevel])

\* ------------------------------------------------------------ Profile Store
\* weight && height && age && gender && activityLevel
AllFiveSet(p) ==
  /\ HasNum(p, "weight") /\ HasNum(p, "height") /\ HasNum(p, "age")
  /\ HasStr(p, "gender") /\ HasStr(p, "activityLevel")

GoalOf(p) ==
  calculateDailyCalories(p.weight, p.height, p.age, p.gender, p.activityLevel)

\* newProfile with the goal computed from the fields before the update
NewProfileGoalFromOld(profile, updates) ==
  LET newProfile == Merge(profile, updates) IN
  IF AllFiveSet(profile)
    THEN Merge(newProfile, [dailyCalorieGoal |-> GoalOf(profile)])
    ELSE newProfile

\* newProfile of handleProfileUpdate, from the userProfile its closure holds
NewProfile(profile, updates) ==
  LET newProfile == Merge(profile, updates) IN
  IF AllFiveSet(newProfile)
    THEN Merge(newProfile, [dailyCalorieGoal |-> GoalOf(newProfile)])
    ELSE newProfile

\* ------------------------------------------------------------ Result Parser
\* text.split("|").map(item => item.trim())
Fields(text) ==
  LET parts == Split(text, << "|" >>) IN
  [i \in 1..Len(parts) |-> Trim(parts[i])]

\* A destructured field. A field the reply does not have is undefined; where
\* the code parses it or tests its truthiness it reads as the empty text
\* (parseInt and parseFloat give NaN for both, and both are falsy).
FieldText(fields, i) == IF i <= Len(fields) THEN fields[i] ELSE << >>

UnknownFood == <<"U", "n", "k", "n", "o", "w", "n", " ", "F", "o", "o", "d">>

\* nutrition.split(",").map(n => parseFloat(n)), destructured into the four
\* names; a name past the end of the list is not set.
NutritionNames == << "protein", "carbs", "fats", "fiber" >>

NutritionalInfo(nutrition) ==
  LET parts == Split(nutrition, << "," >>)
      index(k) == CHOOSE i \in 1..4 : NutritionNames[i] = k
  IN [k \in {NutritionNames[i] : i \in 1..(IF Len(parts) < 4 THEN Len(parts) ELSE 4)}
        |-> ParseFloat(parts[index(k)])]

\* nutrition.split or tips.split is called on undefined: a TypeError
AnalysisThrows(text) == Len(Fields(text)) < 6

TypeErrorMessage == "Cannot read properties of undefined (reading 'split')"

\* confidence <= 0.3
BelowOrAtThreshold(confidenceValue) == confidenceValue <= 300

\* confidence < 0.3, confidence in thousandths
BelowThreshold(confidenceValue) == confidenceValue < 300

\* a parse that gives every default as soon as one of name, calories and
\* confidence is missing
AnalysisResultAllOrNothing(text) ==
  LET f == Fields(text)
      complete == /\ f[1] # << >>
                  /\ ParseInt(f[2]) \notin {NaN, 0}
                  /\ ParseFloat(f[3]) \notin {NaN, 0}
      confidenceValue == IF complete THEN ParseFloat(f[3]) ELSE 0
  IN [foodName |-> IF complete THEN f[1] ELSE UnknownFood,
      calories |-> IF complete THEN ParseInt(f[2]) ELSE 0,
      confidence |-> confidenceValue,
      details |-> f[5],
      nutritionalInfo |-> NutritionalInfo(f[4]),
      recommendations |-> Split(f[6], << ".", " " >>),
      needsClarification |-> BelowThreshold(confidenceValue)]

\* the object handleAnalyze passes to setResult, for a reply of six fields
\* or more
AnalysisResultOf(text) ==
  LET f == Fields(text)
      confidenceValue == OrElse(ParseFloat(f[3]), 0)
  IN [foodName |-> IF f[1] # << >> THEN f[1] ELSE UnknownFood,
      calories |-> OrElse(ParseInt(f[2]), 0),
      confidence |-> confidenceValue,
      details |-> f[5],
      nutritionalInfo |-> NutritionalInfo(f[4]),
      recommendations |-> Split(f[6], << ".", " " >>),
      needsClarification |-> BelowThreshold(confidenceValue)]

\* foodName && calories, the condition of the meal-history append
RecordsMeal(text) ==
  LET f == Fields(text) IN f[1] # << >> /\ FieldText(f, 2) # << >>

\* the object handleClarification passes to setResult; 0.7 is 700 thousandths
ClarifiedResultOf(text) ==
  LET f == Fields(text)
      details == FieldText(f, 4)
      base == [foodName |-> IF f[1] # << >> THEN f[1] ELSE UnknownFood,
               calories |-> OrElse(ParseInt(FieldText(f, 2)), 0),
               confidence |-> OrElse(ParseFloat(FieldText(f, 3)), 700),
               needsClarification |-> FALSE]
  IN IF details # << >> THEN Merge(base, [details |-> details]) ELSE base

\* ------------------------------------------------------ Recommendation Engine
\* array?.includes(tag), for an array the profile may not have
ListIncludes(profile, key, tag) ==
  key \in DOMAIN profile /\ \E i \in 1..Len(profile[key]) : profile[key][i] = tag

\* result.details?.toLowerCase().includes(part)
DetailsInclude(result_, part) ==
  "details" \in DOMAIN result_ /\ Includes(ToLowerCase(result_.details), part)

\* an allergy test that leaves the tag's case as it is
MatchesAllergyAsWritten(result_, allergy) == DetailsInclude(result_, allergy)

\* result.details?.toLowerCase().includes(allergy.toLowerCase())
MatchesAllergy(result_, allergy) == DetailsInclude(result_, ToLowerCase(allergy))

\* userProfile.allergies?.forEach(...), pushing onto suggestions
RECURSIVE PushWarnings(_, _, _)
PushWarnings(suggestions_, result_, allergies) ==
  IF allergies = << >> THEN suggestions_
  ELSE PushWarnings(
         IF MatchesAllergy(result_, Head(allergies))
           THEN Append(suggestions_, [kind |-> "warning", allergen |-> Head(allergies)])
           ELSE suggestions_,
         result_, Tail(allergies))

\* The suggestion strings are modelled by what they say: the remaining
\* calories, the plant-based hint, a warning for an allergen, the portion
\* hint.
getPersonalizedSuggestions(result_, profile) ==
  LET s0 == << >>
      s1 == IF HasNum(profile, "dailyCalorieGoal")
              THEN Append(s0, [kind |-> "remaining",
                               calories |-> profile.dailyCalorieGoal - result_.calories])
              ELSE s0
      s2 == IF /\ ListIncludes(profile, "dietaryPreferences", "vegetarian")
               /\ DetailsInclude(result_, <<"m", "e", "a", "t">>)
              THEN Append(s1, [kind |-> "plant-based"])
              ELSE s1
      s3 == IF "allergies" \in DOMAIN profile
              THEN PushWarnings(s2, result_, profile.allergies)
              ELSE s2
      s4 == IF /\ ListIncludes(profile, "healthGoals", "weight_loss")
               /\ result_.calories > 500
              THEN Append(s3, [kind |-> "portion"])
              ELSE s3
  IN s4

\* ------------------------------------------------------------ sample inputs
\* Replies of the AI service to an analysis request.
\* "Pie|450|0.95|38,35,22,6|Meat pie|Eat. Well"
ReplyGood == <<"P", "i", "e", "|", "4", "5", "0", "|", "0", ".", "9", "5", "|", "3", "8", ",", "3", "5", ",", "2", "2", ",", "6", "|", "M", "e", "a", "t", " ", "p", "i", "e", "|", "E", "a", "t", ".", " ", "W", "e", "l", "l">>
\* "Nut bar|600|0.2|1,2|PEANUT mix|Ok"
ReplyUnsure == <<"N", "u", "t", " ", "b", "a", "r", "|", "6", "0", "0", "|", "0", ".", "2", "|", "1", ",", "2", "|", "P", "E", "A", "N", "U", "T", " ", "m", "i", "x", "|", "O", "k">>
\* "Soup|90|0.3|1,1,1,1|Broth|Ok"
ReplyBoundary == <<"S", "o", "u", "p", "|", "9", "0", "|", "0", ".", "3", "|", "1", ",", "1", ",", "1", ",", "1", "|", "B", "r", "o", "t", "h", "|", "O", "k">>
\* "Pizza|300|0.8"
ReplyShort == <<"P", "i", "z", "z", "a", "|", "3", "0", "0", "|", "0", ".", "8">>
\* "|abc|x|a|d|t"
ReplyGarbled == <<"|", "a", "b", "c", "|", "x", "|", "a", "|", "d", "|", "t">>

AnalysisReplies == {ReplyGood, ReplyUnsure, ReplyBoundary, ReplyShort, ReplyGarbled}

\* Replies of six fields, one for each choice of the first four fields.
\* "Grilled Salmon with Quinoa", "  Tofu bowl ", " "
NameTexts ==
  {<<"G", "r", "i", "l", "l", "e", "d", " ", "S", "a", "l", "m", "o", "n", " ", "w", "i", "t", "h", " ", "Q", "u", "i", "n", "o", "a">>,
   <<" ", " ", "T", "o", "f", "u", " ", "b", "o", "w", "l", " ">>,
   <<" ">>}

\* "450", "abc", "", "1200"
CalorieTexts ==
  {<<"4", "5", "0">>,
   <<"a", "b", "c">>,
   << >>,
   <<"1", "2", "0", "0">>}

\* "0.95", "high", "", "0.3"
ConfidenceTexts ==
  {<<"0", ".", "9", "5">>,
   <<"h", "i", "g", "h">>,
   << >>,
   <<"0", ".", "3">>}

\* "38,35,22,6", "12.5, 40 ,0,7", "1,2,3,4"
NutritionTexts ==
  {<<"3", "8", ",", "3", "5", ",", "2", "2", ",", "6">>,
   <<"1", "2", ".", "5", ",", " ", "4", "0", " ", ",", "0", ",", "7">>,
   <<"1", ",", "2", ",", "3", ",", "4">>}

ParseInputs ==
  {[foodName |-> n, calories |-> c, confidence |-> k, nutrition |-> m] :
     n \in NameTexts, c \in CalorieTexts, k \in ConfidenceTexts,
     m \in NutritionTexts}

\* name|calories|confidence|nutrition|...|...
ReplyOf(fields) ==
  fields.foodName \o << "|" >> \o fields.calories \o << "|" >>
    \o fields.confidence \o << "|" >> \o fields.nutrition
    \o << "|", ".", ".", ".", "|", ".", ".", "." >>

ParseReplies == {ReplyOf(fields) : fields \in ParseInputs}

\* Replies of the AI service to a clarification request.
\* "Pie|400|0.9|Apple pie"
ClarifyGood == <<"P", "i", "e", "|", "4", "0", "0", "|", "0", ".", "9", "|", "A", "p", "p", "l", "e", " ", "p", "i", "e">>
\* "Pie|400|0.1|Hm"
ClarifyUnsure == <<"P", "i", "e", "|", "4", "0", "0", "|", "0", ".", "1", "|", "H", "m">>
\* "x"
ClarifyShort == <<"x">>

ClarificationReplies == {ClarifyGood, ClarifyUnsure, ClarifyShort}

\* Values the user types into the profile form: parseFloat or parseInt of
\* the input's value (NaN for an emptied input), or the value of an option
\* of a select ("" for its placeholder option).
Updates == {[weight |-> NaN], [weight |-> 80], [gender |-> ""]}

\* Rejections of the AI call: an Error with a message, or a value that is no
\* Error.
Rejections == {[isError |-> TRUE, message |-> "fetch failed"],
               [isError |-> FALSE, message |-> ""]}

\* What the user types into the clarification input.
Hints == {"apple pie"}

\* the number of meals the history keeps
HistoryLimit == 10

\* A meal history of n entries recorded at the instants 1..n.
StoredMeals(n) ==
  [i \in 1..n |-> [date |-> i, foodName |-> <<"T", "e", "a">>, calories |-> 100 + i]]

\* A profile that an earlier session stored: all five fields, the goal that
\* belongs to them, tags, and one meal fewer than the history holds. No
\* handler of the component sets the tags: they reach it from storage only.
StoredProfile ==
  [weight |-> 70, height |-> 175, age |-> 30, gender |-> "male",
   activityLevel |-> "moderate", dailyCalorieGoal |-> 2628,
   dietaryPreferences |-> << "vegetarian" >>,
   healthGoals |-> << "weight_loss" >>,
   allergies |-> << <<"P", "e", "a", "n", "u", "t">> >>,
   mealHistory |-> StoredMeals(HistoryLimit - 1)]

\* the instant at which the behaviour starts: after the stored meals
FirstInstant == Len(StoredProfile.mealHistory) + 1

\* ---------------------------------------------------------------- state
VARIABLES
  phase,          \* "boot": rendered, effects not yet run; "ready": mounted
  userProfile,    \* useState<UserProfile>({})
  storage,        \* localStorage['userProfile']
  imageFile,      \* useState<File | null>(null): the file's number
  image,          \* useState<string | null>(null): the data URL of a file
  readers,        \* files whose FileReader has not finished
  isAnalyzing,    \* useState(false)
  result,         \* useState<AnalysisResult | null>(null)
  error,          \* useState<string | null>(null)
  clarification,  \* useState<string>("")
  model,          \* useState<GenerativeModel | null>(null)
  pending,        \* calls of generateContent that have not settled, each
                  \* with what the closure of its handler captured
  clock,          \* the instant new Date() returns
  events,         \* what the user has done so far
  suggestions,    \* what getPersonalizedSuggestions returned, once called
  lastProfile,    \* userProfile when the previous session ended, if any
  input,          \* the argument a specification of one function draws
  lastOp          \* the handler or continuation that ran last

vars ==
  << phase, userProfile, storage, imageFile, image, readers, isAnalyzing,
     result, error, clarification, model, pending, clock, events,
     suggestions, lastProfile, input, lastOp >>

\* the React state other than userProfile
uiVars ==
  << imageFile, image, readers, isAnalyzing, result, error, clarification,
     model >>

\* the variables that record what happened
auxVars == << suggestions, lastProfile, input >>
bookVars == << clock, events, auxVars >>

\* The state of a freshly rendered component: the initial values of useState.
FreshComponent ==
  /\ userProfile = EmptyObject
  /\ imageFile = None /\ image = None /\ readers = {}
  /\ isAnalyzing = FALSE /\ result = None /\ error = None
  /\ clarification = "" /\ model = None
  /\ pending = << >>

Init ==
  /\ phase = "boot"
  /\ FreshComponent
  /\ storage \in {NoItem, Item(JsonStringify(StoredProfile))}
  /\ clock = FirstInstant
  /\ events = 0
  /\ suggestions = None
  /\ lastProfile = None
  /\ input = None
  /\ lastOp = "render"

\* ------------------------------------------------------------- effects
\* useEffect(..., [userProfile]): localStorage.setItem('userProfile', ...)
SaveProfile(profile) == Item(JsonStringify(profile))

\* useEffect(..., []) at mount: the profile the component holds once the
\* queued setUserProfile calls are applied.
LoadedProfile(item) ==
  IF item.kind \in {"absent", "invalid"} THEN EmptyObject
  ELSE LET parsedProfile == item.value IN
       IF AllFiveSet(parsedProfile)
         THEN Merge(parsedProfile, [dailyCalorieGoal |-> GoalOf(parsedProfile)])
         ELSE parsedProfile

\* The render that follows setUserProfile(null) evaluates
\* Object.keys(userProfile), which throws a TypeError; no error boundary
\* catches it, so the component tree is unmounted.
RenderThrows(item) == item.kind = "null"

\* Mount: the load effect reads the item, the save effect writes the {} of
\* the first render, and the render that follows the load saves what was
\* loaded. A render that throws commits nothing: the state and the stored
\* {} of the first render stay.
Startup ==
  /\ phase = "boot"
  /\ IF RenderThrows(storage)
       THEN /\ phase' = "crashed"
            /\ userProfile' = userProfile
       ELSE /\ phase' = "ready"
            /\ userProfile' = LoadedProfile(storage)
  /\ storage' = SaveProfile(userProfile')
  /\ lastOp' = "startup"
  /\ UNCHANGED << uiVars, pending, bookVars >>

\* The page is closed and opened again: storage stays, the rest is new.
Restart ==
  /\ phase \in {"ready", "crashed"}
  /\ events < MaxEvents
  /\ phase' = "boot"
  /\ userProfile' = EmptyObject
  /\ imageFile' = None /\ image' = None /\ readers' = {}
  /\ isAnalyzing' = FALSE /\ result' = None /\ error' = None
  /\ clarification' = "" /\ model' = None
  /\ pending' = << >>
  /\ events' = events + 1
  /\ lastProfile' = Some(userProfile)
  /\ lastOp' = "render"
  /\ UNCHANGED << storage, clock, suggestions, input >>

\* ------------------------------------------------------------ handlers
\* onChange of a profile input or select
handleProfileUpdate(updates) ==
  /\ phase = "ready"
  /\ events < MaxEvents
  /\ events' = events + 1
  /\ userProfile' = NewProfile(userProfile, updates)
  /\ storage' = SaveProfile(userProfile')
  /\ lastOp' = "handleProfileUpdate"
  /\ UNCHANGED << phase, uiVars, pending, clock, auxVars >>

\* What handleClearProfile leaves: removeItem, setUserProfile({}), and the
\* save effect of the render that follows.
ClearedStorage == SaveProfile(EmptyObject)

\* onClick of Clear Profile, rendered while the profile has a key
handleClearProfile ==
  /\ phase = "ready"
  /\ DOMAIN userProfile # {}
  /\ events < MaxEvents
  /\ events' = events + 1
  /\ userProfile' = EmptyObject
  /\ storage' = ClearedStorage
  /\ lastOp' = "handleClearProfile"
  /\ UNCHANGED << phase, uiVars, pending, clock, auxVars >>

\* userProfile.mealHistory || []
MealHistoryOf(profile) ==
  IF "mealHistory" \in DOMAIN profile THEN profile.mealHistory ELSE << >>

\* [...history, newHistory].slice(0, 10)
AppendMealKeepOldest(history, newHistory) ==
  SubSeq(Append(history, newHistory), 1,
         IF Len(history) + 1 > HistoryLimit THEN HistoryLimit ELSE Len(history) + 1)

\* [...history, newHistory].slice(-10)
AppendMeal(history, newHistory) ==
  SliceLast(Append(history, newHistory), HistoryLimit)

\* The profile updateMealHistory passes to setUserProfile, from the
\* userProfile that the closure of the running handler holds.
updateMealHistory(profile, foodName, calories, now) ==
  NewProfile(profile,
    [mealHistory |->
       AppendMeal(MealHistoryOf(profile),
                  [date |-> now, foodName |-> foodName, calories |-> calories])])

\* processImageFile reachable while an image is shown
processImageFileAnyTime ==
  /\ phase = "ready"
  /\ events < MaxEvents
  /\ events' = events + 1
  /\ imageFile' = Some(events')
  /\ readers' = readers \cup {events'}
  /\ result' = None
  /\ error' = None
  /\ clarification' = ""
  /\ lastOp' = "processImageFile"
  /\ UNCHANGED << phase, userProfile, storage, image, isAnalyzing, model,
                  pending, clock, auxVars >>

\* onChange of a file input: processImageFile(file). The two buttons that
\* open the file picker are rendered in the placeholder shown while image
\* is null; the inputs themselves are hidden.
processImageFile ==
  /\ phase = "ready"
  /\ image = None
  /\ events < MaxEvents
  /\ events' = events + 1
  /\ imageFile' = Some(events')
  /\ readers' = readers \cup {events'}
  /\ result' = None
  /\ error' = None
  /\ clarification' = ""
  /\ lastOp' = "processImageFile"
  /\ UNCHANGED << phase, userProfile, storage, image, isAnalyzing, model,
                  pending, clock, auxVars >>

\* reader.onloadend
ReaderLoadEnd(file) ==
  /\ phase = "ready"
  /\ file \in readers
  /\ readers' = readers \ {file}
  /\ image' = Some(file)
  /\ lastOp' = "onloadend"
  /\ UNCHANGED << phase, userProfile, storage, imageFile, isAnalyzing, result,
                  error, clarification, model, pending, bookVars >>

\* The Analyze Food button is disabled={!image || isAnalyzing}.
AnalyzeEnabled == image # None /\ ~isAnalyzing

\* The Update Analysis button is rendered while the result needs
\* clarification, and is disabled={!clarification}.
ClarifyEnabled ==
  /\ result # None /\ result[1].needsClarification
  /\ clarification # ""

\* onClick of Analyze Food: handleAnalyze up to the call of generateContent.
\* The request carries the file and the userProfile of the render whose
\* handler was called.
handleAnalyze ==
  /\ phase = "ready"
  /\ AnalyzeEnabled
  /\ imageFile # None
  /\ events < MaxEvents
  /\ events' = events + 1
  /\ isAnalyzing' = TRUE
  /\ error' = None
  /\ model' = Some("gemini-1.5-flash")
  /\ pending' = Append(pending,
       [kind |-> "analyze", profile |-> userProfile, file |-> imageFile[1]])
  /\ lastOp' = "handleAnalyze"
  /\ UNCHANGED << phase, userProfile, storage, imageFile, image, readers,
                  result, clarification, clock, auxVars >>

Without(seq, i) == SubSeq(seq, 1, i - 1) \o SubSeq(seq, i + 1, Len(seq))

\* errorMessage of a catch block
ErrorMessage(rejection, fallback) ==
  IF rejection.isError THEN rejection.message ELSE fallback

\* a catch block that also drops the displayed result
AnalyzeCatchDropsResult(i, message, op) ==
  /\ error' = Some(message)
  /\ isAnalyzing' = FALSE
  /\ result' = None
  /\ pending' = Without(pending, i)
  /\ lastOp' = op
  /\ UNCHANGED << phase, userProfile, storage, imageFile, image, readers,
                  clarification, model, bookVars >>

\* a catch block without the finally block
AnalyzeCatchKeepsBusy(i, message, op) ==
  /\ error' = Some(message)
  /\ pending' = Without(pending, i)
  /\ lastOp' = op
  /\ UNCHANGED << phase, userProfile, storage, imageFile, image, readers,
                  isAnalyzing, result, clarification, model, bookVars >>

\* catch and finally of handleAnalyze
AnalyzeCatch(i, message, op) ==
  /\ error' = Some(message)
  /\ isAnalyzing' = FALSE
  /\ pending' = Without(pending, i)
  /\ lastOp' = op
  /\ UNCHANGED << phase, userProfile, storage, imageFile, image, readers,
                  result, clarification, model, bookVars >>

\* What handleAnalyze computes from each reply of the model: whether it
\* throws, else the result it sets and the meal it records, if any.
AnalysisOutcome ==
  [text \in AnalysisReplies \cup ParseReplies |->
     IF AnalysisThrows(text) THEN [throws |-> TRUE]
     ELSE [throws |-> FALSE,
           result |-> AnalysisResultOf(text),
           recordsMeal |-> RecordsMeal(text),
           foodName |-> Fields(text)[1],
           calories |-> ParseInt(FieldText(Fields(text), 2))]]

ClarificationOutcome ==
  [text \in ClarificationReplies |-> ClarifiedResultOf(text)]

\* handleAnalyze after generateContent resolves with text
AnalyzeResolved(i, text) ==
  /\ phase = "ready"
  /\ i \in 1..Len(pending) /\ pending[i].kind = "analyze"
  /\ IF AnalysisOutcome[text].throws
       THEN AnalyzeCatch(i, TypeErrorMessage, "analyze:resolved")
       ELSE /\ result' = Some(AnalysisOutcome[text].result)
            /\ isAnalyzing' = FALSE
            /\ pending' = Without(pending, i)
            /\ IF AnalysisOutcome[text].recordsMeal
                 THEN /\ userProfile' =
                           updateMealHistory(pending[i].profile,
                                             AnalysisOutcome[text].foodName,
                                             AnalysisOutcome[text].calories, clock)
                      /\ storage' = SaveProfile(userProfile')
                      /\ clock' = clock + 1
                      /\ lastOp' = "analyze:resolved"
                 ELSE /\ UNCHANGED << userProfile, storage, clock >>
                      /\ lastOp' = "analyze:resolved"
            /\ UNCHANGED << phase, imageFile, image, readers, error,
                            clarification, model, events, auxVars >>

\* handleAnalyze after generateContent (or arrayBuffer) rejects
AnalyzeRejected(i, rejection) ==
  /\ phase = "ready"
  /\ i \in 1..Len(pending) /\ pending[i].kind = "analyze"
  /\ AnalyzeCatch(i,
       ErrorMessage(rejection, "Failed to analyze the image. Please try again."),
       "analyze:rejected")

\* onChange of the clarification input, rendered with the Update Analysis
\* button
setClarification(text) ==
  /\ phase = "ready"
  /\ result # None /\ result[1].needsClarification
  /\ clarification # text
  /\ clarification' = text
  /\ lastOp' = "setClarification"
  /\ UNCHANGED << phase, userProfile, storage, imageFile, image, readers,
                  isAnalyzing, result, error, model, pending, bookVars >>

\* onClick of Update Analysis: handleClarification up to generateContent
handleClarification ==
  /\ phase = "ready"
  /\ ClarifyEnabled
  /\ clarification # "" /\ model # None
  /\ events < MaxEvents
  /\ events' = events + 1
  /\ pending' = Append(pending, [kind |-> "clarify"])
  /\ lastOp' = "handleClarification"
  /\ UNCHANGED << phase, userProfile, storage, uiVars, clock, auxVars >>

\* handleClarification after generateContent resolves with text
ClarifyResolved(i, text) ==
  /\ phase = "ready"
  /\ i \in 1..Len(pending) /\ pending[i].kind = "clarify"
  /\ result' = Some(ClarificationOutcome[text])
  /\ clarification' = ""
  /\ pending' = Without(pending, i)
  /\ lastOp' = "clarify:resolved"
  /\ UNCHANGED << phase, userProfile, storage, imageFile, image, readers,
                  isAnalyzing, error, model, bookVars >>

\* handleClarification after generateContent rejects
ClarifyRejected(i, rejection) ==
  /\ phase = "ready"
  /\ i \in 1..Len(pending) /\ pending[i].kind = "clarify"
  /\ error' = Some(ErrorMessage(rejection,
                     "Failed to process clarification. Please try again."))
  /\ clarification' = ""
  /\ pending' = Without(pending, i)
  /\ lastOp' = "clarify:rejected"
  /\ UNCHANGED << phase, userProfile, storage, imageFile, image, readers,
                  isAnalyzing, result, model, bookVars >>

Next ==
  \/ Startup
  \/ Restart
  \/ \E updates \in Updates : handleProfileUpdate(updates)
  \/ handleClearProfile
  \/ processImageFile
  \/ \E file \in readers : ReaderLoadEnd(file)
  \/ handleAnalyze
  \/ \E i \in 1..Len(pending), text \in AnalysisReplies : AnalyzeResolved(i, text)
  \/ \E i \in 1..Len(pending), rejection \in Rejections : AnalyzeRejected(i, rejection)
  \/ \E text \in Hints : setClarification(text)
  \/ handleClarification
  \/ \E i \in 1..Len(pending), text \in ClarificationReplies : ClarifyResolved(i, text)
  \/ \E i \in 1..Len(pending), rejection \in Rejections : ClarifyRejected(i, rejection)

Spec == Init /\ [][Next]_vars

\* ------------------------------------------- the Recommendation Engine alone
\* Profiles and results for getPersonalizedSuggestions: each key of the
\* profile that the function reads is absent or holds one of a few values.
Choices(key, values) == {EmptyObject} \cup {Merge(EmptyObject, [k \in {key} |-> v]) : v \in values}

SuggestProfiles ==
  {Merge(Merge(Merge(g, d), a), h) :
     g \in Choices("dailyCalorieGoal", {2628, 400}),
     d \in Choices("dietaryPreferences", {<< "vegan" >>, << "vegan", "vegetarian" >>}),
     a \in Choices("allergies", {<< >>, << <<"P", "e", "a", "n", "u", "t">> >>, << <<"e", "g", "g">>, <<"P", "e", "a", "n", "u", "t">> >>,
                                 << <<"P", "e", "a", "n", "u", "t">>, <<"e", "g", "g">> >>, << <<"M", "e", "a", "t">> >>}),
     h \in Choices("healthGoals", {<< "muscle_gain" >>, << "weight_loss" >>})}

SuggestResults ==
  {Merge([foodName |-> <<"P", "i", "e">>, calories |-> c, confidence |-> 900,
          needsClarification |-> FALSE], d) :
     c \in {450, 500, 501},
     d \in Choices("details", {<<"M", "e", "a", "t", " ", "p", "i", "e">>, <<"P", "E", "A", "N", "U", "T", " ", "a", "n", "d", " ", "E", "g", "g">>, <<"m", "e", "a", "t", ",", " ", "e", "g", "g", ",", " ", "p", "e", "a", "n", "u", "t">>, <<"T", "e", "a", "m", " ", "n", "u", "t", "s">>})}

InitSuggest ==
  /\ phase = "ready"
  /\ userProfile \in SuggestProfiles
  /\ storage = SaveProfile(userProfile)
  /\ imageFile = None /\ image = None /\ readers = {}
  /\ isAnalyzing = FALSE /\ error = None
  /\ result \in {Some(r) : r \in SuggestResults}
  /\ clarification = "" /\ model = None
  /\ pending = << >>
  /\ clock = FirstInstant
  /\ events = 0
  /\ suggestions = None
  /\ lastProfile = None
  /\ input = None
  /\ lastOp = "render"

\* The render of the Personalized Suggestions list of a displayed result
RenderSuggestions ==
  /\ result # None
  /\ suggestions = None
  /\ suggestions' = Some(getPersonalizedSuggestions(result[1], userProfile))
  /\ lastOp' = "getPersonalizedSuggestions"
  /\ UNCHANGED << phase, userProfile, storage, uiVars, pending, clock, events,
                  lastProfile, input >>

NextSuggest == RenderSuggestions

SuggestSpec == InitSuggest /\ [][NextSuggest]_vars

\* ------------------------------------------ the Calorie Goal Calculator alone
\* Valid biometric values: the profile lacks only the weight, and the weight
\* input's onChange completes it, which runs calculateDailyCalories.
CalcWeights == {40, 70, 80, 120}
CalcHeights == {150, 175, 200}
CalcAges == {18, 30, 80}
Genders == {"male", "female", "other"}
ActivityLevels == DOMAIN activityMultipliers

CalcProfiles ==
  {[height |-> h, age |-> a, gender |-> g, activityLevel |-> l] :
     h \in CalcHeights, a \in CalcAges, g \in Genders, l \in ActivityLevels}

InitCalc ==
  /\ phase = "ready"
  /\ userProfile \in CalcProfiles
  /\ storage = SaveProfile(userProfile)
  /\ imageFile = None /\ image = None /\ readers = {}
  /\ isAnalyzing = FALSE /\ result = None /\ error = None
  /\ clarification = "" /\ model = None
  /\ pending = << >>
  /\ clock = FirstInstant
  /\ events = 0
  /\ suggestions = None
  /\ lastProfile = None
  /\ input = None
  /\ lastOp = "render"

NextCalc == \E weight \in CalcWeights : handleProfileUpdate([weight |-> weight])

CalcSpec == InitCalc /\ [][NextCalc]_vars

\* ------------------------------------------------ any stored value at mount
\* The entry may hold what another session, another script of the origin or
\* the user wrote: also a text that is not JSON, and the JSON text null.
StoredValues ==
  {NoItem, Item(JsonStringify(StoredProfile)), InvalidItem, NullItem}

InitLoad ==
  /\ phase = "boot"
  /\ FreshComponent
  /\ storage \in StoredValues
  /\ clock = FirstInstant
  /\ events = 0
  /\ suggestions = None
  /\ lastProfile = None
  /\ input = None
  /\ lastOp = "render"

LoadSpec == InitLoad /\ [][Next]_vars

\* ------------------------------------------- one profile update, repeated
\* Profiles the component can hold: none, a stored one, one whose weight
\* input was emptied, one completed in this session, one that lacks the
\* weight.
UpdateProfiles ==
  {EmptyObject,
   StoredProfile,
   NewProfile(StoredProfile, [weight |-> NaN]),
   NewProfile([weight |-> 80, height |-> 175, age |-> 30, gender |-> "female"],
              [activityLevel |-> "light"]),
   [height |-> 175, age |-> 30, gender |-> "other", activityLevel |-> "active"]}

\* The partial updates the inputs, the selects and updateMealHistory pass.
RepeatedUpdates ==
  Updates \cup
  {[weight |-> 70], [height |-> 180], [age |-> 31], [gender |-> "female"],
   [activityLevel |-> "sedentary"],
   [dietaryPreferences |-> << "vegan" >>],
   [mealHistory |-> StoredMeals(1)]}

InitUpdate ==
  /\ phase = "ready"
  /\ userProfile \in UpdateProfiles
  /\ storage = SaveProfile(userProfile)
  /\ imageFile = None /\ image = None /\ readers = {}
  /\ isAnalyzing = FALSE /\ result = None /\ error = None
  /\ clarification = "" /\ model = None
  /\ pending = << >>
  /\ clock = FirstInstant
  /\ events = 0
  /\ suggestions = None
  /\ lastProfile = None
  /\ input \in {Some(updates) : updates \in RepeatedUpdates}
  /\ lastOp = "render"

\* the same onChange again
NextUpdate == handleProfileUpdate(input[1])

UpdateSpec == InitUpdate /\ [][NextUpdate]_vars

\* --------------------------------------------------- the Result Parser alone
\* An analysis is outstanding and the reply has six fields: the state after
\* one upload and one click of Analyze Food, with the reply still to come.
InitParse ==
  /\ phase = "ready"
  /\ userProfile = EmptyObject
  /\ storage = SaveProfile(userProfile)
  /\ imageFile = Some(1) /\ image = Some(1) /\ readers = {}
  /\ isAnalyzing = TRUE /\ result = None /\ error = None
  /\ clarification = "" /\ model = Some("gemini-1.5-flash")
  /\ pending = << [kind |-> "analyze", profile |-> userProfile, file |-> 1] >>
  /\ clock = FirstInstant
  /\ events = 2
  /\ suggestions = None
  /\ lastProfile = None
  /\ input \in {Some(fields) : fields \in ParseInputs}
  /\ lastOp = "handleAnalyze"

NextParse == AnalyzeResolved(1, ReplyOf(input[1]))

ParseSpec == InitParse /\ [][NextParse]_vars

\* ------------------------------------------- an AI service that answers
\* generateContent of an analysis settles: the promise resolves with a
\* reply or rejects.
AnalysisSettles ==
  \E i \in 1..Len(pending) :
    \/ \E text \in AnalysisReplies : AnalyzeResolved(i, text)
    \/ \E rejection \in Rejections : AnalyzeRejected(i, rejection)

\* a first visit: nothing is stored
InitFirstVisit ==
  /\ phase = "boot"
  /\ FreshComponent
  /\ storage = NoItem
  /\ clock = FirstInstant
  /\ events = 0
  /\ suggestions = None
  /\ lastProfile = None
  /\ input = None
  /\ lastOp = "render"

\* The component with a service that does not leave an analysis request
\* unanswered for ever.
FairSpec == InitFirstVisit /\ [][Next]_vars /\ WF_vars(AnalysisSettles)

\* ================================================================ claims
\* The step in which handleAnalyze records a meal: the only step that takes
\* an instant from the clock.
MealStep == lastOp' = "analyze:resolved" /\ clock' = clock + 1

\* C1: dailyCalorieGoal is absent, or all five biometric fields are set and
\* it is the Calorie Goal Calculator's output for their current values.
C1_GoalNeverStale ==
  "dailyCalorieGoal" \in DOMAIN userProfile =>
    /\ AllFiveSet(userProfile)
    /\ userProfile.dailyCalorieGoal =
         calculateDailyCalories(userProfile.weight, userProfile.height,
                                userProfile.age, userProfile.gender,
                                userProfile.activityLevel)

\* C2: no reachable state has two outstanding requests at the AI service.
C2_OneRequestInFlight == Len(pending) <= 1

\* The keys a meal-history append must leave alone.
FrameKeys ==
  {"weight", "height", "age", "gender", "activityLevel",
   "dietaryPreferences", "healthGoals", "allergies"}

SameKey(before, after, k) ==
  /\ (k \in DOMAIN after) = (k \in DOMAIN before)
  /\ k \in DOMAIN before => after[k] = before[k]

\* C3: the meal-history append of a completed analysis changes only
\* mealHistory and the goal: the biometric fields and the tag sets keep the
\* values of the user's last write.
C3_AppendKeepsLastWrite ==
  [][MealStep => \A k \in FrameKeys : SameKey(userProfile, userProfile', k)]_vars

\* C4: handling a reply of the analysis never raises: it sets a result and
\* surfaces no error message.
C4_ParseNeverRaises ==
  [][lastOp' = "analyze:resolved" => (error' = error /\ result' # None)]_vars

\* C5: once handleClearProfile and the effects it triggers have run, the
\* profile is empty and storage holds no value under the key userProfile.
C5_ClearRemovesItem ==
  lastOp = "handleClearProfile" =>
    (userProfile = EmptyObject /\ storage.kind = "absent")

\* A result of the six-field analysis reply has nutritionalInfo; a result of
\* the four-field clarification reply has not.
FromAnalysis(r) == "nutritionalInfo" \in DOMAIN r

C7_HistoryBoundedFifo ==
  /\ Len(MealHistoryOf(userProfile)) <= 10
  /\ [][/\ Len(MealHistoryOf(userProfile')) <= 10
        /\ MealStep =>
         LET before == MealHistoryOf(userProfile)
             after == MealHistoryOf(userProfile')
             isBefore(e) == \E i \in 1..Len(before) : before[i] = e
             isAfter(e) == \E i \in 1..Len(after) : after[i] = e
         IN /\ after # << >>
            /\ after[Len(after)].date = clock
            /\ ~isBefore(after[Len(after)])
            /\ SelectSeq(before, isAfter) = SelectSeq(after, isBefore)
            /\ Len(before) = 10 =>
                 SubSeq(after, 1, 9) = SubSeq(before, 2, 10)]_vars

\* an append to a history of 10 has happened: the meal of instant 1 is gone
C7_Witness ==
  /\ lastOp = "analyze:resolved"
  /\ Len(MealHistoryOf(userProfile)) = 10
  /\ userProfile.mealHistory[1].date = 2
  /\ userProfile.mealHistory[10].date = clock - 1

\* C8: a rejected AI call surfaces an error message and leaves the profile,
\* storage and the displayed result as they were; neither the click that
\* started the attempt nor the rejection changes them, and the rejection
\* issues no new request.
C8_FailureLeavesNoTrace ==
  [][/\ lastOp' \in {"handleAnalyze", "handleClarification",
                     "analyze:rejected", "clarify:rejected"} =>
          /\ userProfile' = userProfile
          /\ storage' = storage
          /\ result' = result
     /\ lastOp' \in {"analyze:rejected", "clarify:rejected"} =>
          /\ error' # None
          /\ Len(pending') = Len(pending) - 1]_vars

\* an analysis was rejected while a result and a recorded meal were there
C8_Witness ==
  /\ lastOp = "analyze:rejected"
  /\ error # None /\ result # None
  /\ Len(MealHistoryOf(userProfile)) = 10
  /\ pending = << >>

\* C9: after the startup effects of a new session, the profile equals the
\* profile held when the previous session ended, and storage holds it.
C9_ProfileSurvivesRestart ==
  (lastOp = "startup" /\ lastProfile # None) =>
    (userProfile = lastProfile[1] /\ storage = SaveProfile(lastProfile[1]))

\* c and d are the same letter in either case, or the same character
SameLetter(c, d) ==
  c = d \/ \E i \in 1..26 : {c, d} = {UpperChars[i], LowerChars[i]}

\* part occurs in text, letters compared without regard to case
ContainsIgnoringCase(text, part) ==
  \E off \in 0..(Len(text) - Len(part)) :
    \A j \in 1..Len(part) : SameLetter(text[off + j], part[j])

DetailsContain(r, part) ==
  "details" \in DOMAIN r /\ ContainsIgnoringCase(r.details, part)

ListOf(profile, key) == IF key \in DOMAIN profile THEN profile[key] ELSE << >>

\* the four groups of suggestions that C10 lists, for a result and a profile
ExpectedRemaining(r, profile) ==
  IF "dailyCalorieGoal" \in DOMAIN profile
    THEN << [kind |-> "remaining", calories |-> profile.dailyCalorieGoal - r.calories] >>
    ELSE << >>

ExpectedPlantBased(r, profile) ==
  IF /\ "vegetarian" \in {ListOf(profile, "dietaryPreferences")[i] :
                            i \in 1..Len(ListOf(profile, "dietaryPreferences"))}
     /\ DetailsContain(r, <<"m", "e", "a", "t">>)
    THEN << [kind |-> "plant-based"] >>
    ELSE << >>

ExpectedWarnings(r, profile) ==
  LET contained(tag) == DetailsContain(r, tag)
      tags == SelectSeq(ListOf(profile, "allergies"), contained)
  IN [i \in 1..Len(tags) |-> [kind |-> "warning", allergen |-> tags[i]]]

ExpectedPortion(r, profile) ==
  IF /\ "weight_loss" \in {ListOf(profile, "healthGoals")[i] :
                             i \in 1..Len(ListOf(profile, "healthGoals"))}
     /\ r.calories > 500
    THEN << [kind |-> "portion"] >>
    ELSE << >>

\* C10: getPersonalizedSuggestions returns the remaining-calories statement,
\* the plant-based suggestion, one warning per allergy tag found in details
\* (in the order of the allergy list) and the portion-size suggestion, in
\* this order, each present exactly when its condition holds.
C10_SuggestionsInFixedOrder ==
  suggestions # None =>
    suggestions[1] = ExpectedRemaining(result[1], userProfile)
                     \o ExpectedPlantBased(result[1], userProfile)
                     \o ExpectedWarnings(result[1], userProfile)
                     \o ExpectedPortion(result[1], userProfile)

\* all four groups at once, with two warnings in the order of the list
C10_Witness ==
  /\ suggestions # None
  /\ Len(suggestions[1]) = 5
  /\ suggestions[1][3] = [kind |-> "warning", allergen |-> <<"e", "g", "g">>]
  /\ suggestions[1][4] = [kind |-> "warning", allergen |-> <<"P", "e", "a", "n", "u", "t">>]

\* The Harris-Benedict revised basal metabolic rate as documented, in
\* thousandths of a kilocalorie.
HarrisBenedict(weight, height, age, gender) ==
  CASE gender = "male" ->
         88362 + 13397 * weight + 4799 * height - 5677 * age
    [] gender \in {"female", "other"} ->
         447593 + 9247 * weight + 3098 * height - 4330 * age

\* The documented activity factors, in thousandths.
ActivityFactor ==
  [sedentary |-> 1200, light |-> 1375, moderate |-> 1550, active |-> 1725,
   very_active |-> 1900]

\* goal is the integer nearest to bmr * factor / 10^6, halves upward. Every
\* factor is a whole number of fortieths, so both sides are divided by 25.
NearestInteger(goal, bmr, factor) ==
  /\ factor % 25 = 0
  /\ (2 * goal - 1) * 40000 <= 2 * bmr * (factor \div 25)
  /\ 2 * bmr * (factor \div 25) < (2 * goal + 1) * 40000

\* C11: once the five biometric fields are valid, dailyCalorieGoal is the
\* Harris-Benedict revised rate (male branch for male, the other branch for
\* female and other) times the activity factor of the table, rounded to the
\* nearest integer; 70 kg, 175 cm, 30 years, male, moderate gives 2628.
C11_GoalIsHarrisBenedict ==
  /\ lastOp = "handleProfileUpdate" =>
       /\ "dailyCalorieGoal" \in DOMAIN userProfile
       /\ NearestInteger(userProfile.dailyCalorieGoal,
            HarrisBenedict(userProfile.weight, userProfile.height,
                           userProfile.age, userProfile.gender),
            ActivityFactor[userProfile.activityLevel])
  /\ calculateDailyCalories(70, 175, 30, "male", "moderate") = 2628

C11_Witness ==
  /\ lastOp = "handleProfileUpdate"
  /\ userProfile = [weight |-> 70, height |-> 175, age |-> 30,
                    gender |-> "male", activityLevel |-> "moderate",
                    dailyCalorieGoal |-> 2628]

\* C12: whatever text the entry holds at mount that is not a stored profile
\* (invalid JSON, or the JSON null), startup completes with the empty
\* profile in memory and no error shown.
C12_CorruptLoadFallsBack ==
  [][(phase = "boot" /\ storage \in {InvalidItem, NullItem}
        /\ lastOp' = "startup")
       => (phase' = "ready" /\ userProfile' = EmptyObject /\ error' = None)]_vars

\* C13: handleProfileUpdate called again with the partial update it was
\* just called with leaves the profile, dailyCalorieGoal included, as the
\* first call left it.
C13_UpdateIdempotent ==
  [][(events >= 1 /\ lastOp' = "handleProfileUpdate")
       => userProfile' = userProfile]_vars

C13_Witness ==
  /\ events >= 2
  /\ lastOp = "handleProfileUpdate"
  /\ input = Some([weight |-> 80])
  /\ HasNum(userProfile, "dailyCalorieGoal")
  /\ userProfile.dailyCalorieGoal = 2836

\* What the claim says each field of the reply gives: the trimmed name or
\* "Unknown Food", the integer or 0, the number (in thousandths) or 0, and
\* the four numbers (in thousandths) in the order protein, carbs, fats, fiber.
ExpectedFoodName(field) ==
  CASE field = <<"G", "r", "i", "l", "l", "e", "d", " ", "S", "a", "l", "m", "o", "n", " ", "w", "i", "t", "h", " ", "Q", "u", "i", "n", "o", "a">>
         -> field
    [] field = <<" ", " ", "T", "o", "f", "u", " ", "b", "o", "w", "l", " ">>
         -> <<"T", "o", "f", "u", " ", "b", "o", "w", "l">>
    [] field = <<" ">>
         -> <<"U", "n", "k", "n", "o", "w", "n", " ", "F", "o", "o", "d">>

ExpectedCalories(field) ==
  CASE field = <<"4", "5", "0">> -> 450
    [] field = <<"1", "2", "0", "0">> -> 1200
    [] field = <<"a", "b", "c">> -> 0
    [] field = << >> -> 0

ExpectedConfidence(field) ==
  CASE field = <<"0", ".", "9", "5">> -> 950
    [] field = <<"0", ".", "3">> -> 300
    [] field = <<"h", "i", "g", "h">> -> 0
    [] field = << >> -> 0

ExpectedNutrition(field) ==
  CASE field = <<"3", "8", ",", "3", "5", ",", "2", "2", ",", "6">>
         -> [protein |-> 38000, carbs |-> 35000, fats |-> 22000, fiber |-> 6000]
    [] field = <<"1", "2", ".", "5", ",", " ", "4", "0", " ", ",", "0", ",", "7">>
         -> [protein |-> 12500, carbs |-> 40000, fats |-> 0, fiber |-> 7000]
    [] field = <<"1", ",", "2", ",", "3", ",", "4">>
         -> [protein |-> 1000, carbs |-> 2000, fats |-> 3000, fiber |-> 4000]

\* "Grilled Salmon with Quinoa|450|0.95|38,35,22,6|...|..."
SalmonReply ==
  [foodName |-> <<"G", "r", "i", "l", "l", "e", "d", " ", "S", "a", "l", "m", "o", "n", " ", "w", "i", "t", "h", " ", "Q", "u", "i", "n", "o", "a">>,
   calories |-> <<"4", "5", "0">>,
   confidence |-> <<"0", ".", "9", "5">>,
   nutrition |-> <<"3", "8", ",", "3", "5", ",", "2", "2", ",", "6">>]

\* C14: a reply of six fields is parsed field by field: the trimmed name or
\* "Unknown Food", the integer calories or 0, the confidence or 0, the four
\* nutrition values in order, each default taken independently of the other
\* fields; the salmon example gives 450, 0.95, 38/35/22/6 and asks for no
\* clarification.
C14_SixFieldsParseFieldByField ==
  lastOp = "analyze:resolved" =>
    /\ error = None
    /\ result # None
    /\ result[1].foodName = ExpectedFoodName(input[1].foodName)
    /\ result[1].calories = ExpectedCalories(input[1].calories)
    /\ result[1].confidence = ExpectedConfidence(input[1].confidence)
    /\ result[1].nutritionalInfo = ExpectedNutrition(input[1].nutrition)
    /\ (input[1] = SalmonReply => ~result[1].needsClarification)

C14_Witness ==
  /\ lastOp = "analyze:resolved"
  /\ input = Some(SalmonReply)
  /\ result # None
  /\ result[1].calories = 450
  /\ result[1].confidence = 950
  /\ result[1].nutritionalInfo =
       [protein |-> 38000, carbs |-> 35000, fats |-> 22000, fiber |-> 6000]
  /\ ~result[1].needsClarification

\* Every outstanding analysis request was issued for the selected image.
RequestsOfSelectedImage(requests, selected) ==
  \A i \in 1..Len(requests) :
    requests[i].kind = "analyze" => selected = Some(requests[i].file)

\* C15: selecting an image leaves no result displayed, and none derived from
\* an earlier image arrives afterwards: when processImageFile runs no
\* request is outstanding, every analysis request is for the selected image,
\* a resolved analysis displays the result of a request for the selected
\* image, and a resolved clarification replaces a result already displayed
\* for it.
C15_ResultOfSelectedImage ==
  /\ RequestsOfSelectedImage(pending, imageFile)
  /\ [][/\ RequestsOfSelectedImage(pending', imageFile')
        /\ lastOp' = "processImageFile" =>
             (result' = None /\ pending = << >> /\ pending' = << >>)
        /\ (lastOp' = "analyze:resolved" /\ result' # None /\ result' # result) =>
             \E i \in 1..Len(pending) :
               /\ pending[i].kind = "analyze"
               /\ pending' = Without(pending, i)
               /\ imageFile' = Some(pending[i].file)
        /\ lastOp' = "clarify:resolved" =>
             (result # None /\ imageFile' = imageFile)]_vars

C15_Witness ==
  /\ lastOp = "analyze:resolved"
  /\ result # None
  /\ imageFile # None
  /\ (image # imageFile \/ readers # {})

\* An analysis request is outstanding.
AnalysisOutstanding ==
  \E i \in 1..Len(pending) : pending[i].kind = "analyze"

\* C16: with a service that answers, isAnalyzing set by a started analysis
\* becomes false again, whether the reply parses, fails to parse or the
\* call rejects; isAnalyzing is true exactly while the call is outstanding.
C16_BusyFlagReleased ==
  /\ [](isAnalyzing <=> AnalysisOutstanding)
  /\ [][lastOp' \in {"analyze:resolved", "analyze:rejected"} => ~isAnalyzing']_vars
  /\ (isAnalyzing ~> ~isAnalyzing)

C16_Witness ==
  /\ lastOp = "analyze:resolved"
  /\ ~isAnalyzing
  /\ error = Some(TypeErrorMessage)

====
